---- MODULE Spec2Model ----
(***************************************************************************)
(* The retrieval-augmented answer pipeline of the support copilot           *)
(* (src/pipeline/rag.py): the lazy build of the persisted vector index,     *)
(* the construction of a RAGPipeline, and get_rag_answer; the build script  *)
(* (src/scripts/vector_store_script.py); the ticket classifier              *)
(* (src/pipeline/classifier.py); and the interactive agent of the app       *)
(* (src/app.py) with its answer clean-up.                                   *)
(*                                                                          *)
(* Text is modelled as follows.  A string that the code only stores and     *)
(* compares is a TLA+ string.  A source URL, which the code lower-cases,    *)
(* searches for a domain and compares lexicographically, is a sequence of   *)
(* tokens; the tokens form a prefix-free set, so comparing token sequences  *)
(* by the code-point order of the tokens is the code-point order of the     *)
(* strings.  The empty string is <<>>.                                      *)
(***************************************************************************)
EXTENDS Integers, Sequences, FiniteSets, TLC

VARIABLES kb, index, vector_store, constructions, builds, ensure_log, call,
          page, classified, stripped, queried, ensuring, chunker

\* The knowledge base file, the index path, the pipeline object and its use.
ragVars == <<kb, index, vector_store, constructions, builds, ensure_log, call>>
\* The page the app rendered, the outcome of a classify_ticket call, of a
\* strip_sources_from_answer call and of a RAGPipeline.query call, the builds
\* in progress and the chunker.
appVars == <<page, classified, stripped, queried>>
buildVars == <<ensuring, chunker>>

vars == <<kb, index, vector_store, constructions, builds, ensure_log, call,
          page, classified, stripped, queried, ensuring, chunker>>

-----------------------------------------------------------------------------
(* Bounds of the model. *)

\* Pipeline constructions in one run of the life-cycle specification.
MaxConstructions == 3
\* Records of a knowledge base of the life-cycle specification.
MaxDocs == 2
\* Records of a knowledge base of the query specification.
MaxIndexedDocs == 6
\* Topic tags of one classification.
MaxTags == 2
\* Tokens of an answer text.
MaxAnswerLen == 5
\* Pipeline constructions that run concurrently.
MaxBuilders == 2
\* Completed builds after which the build script is not run again.
MaxBuilds == 3

-----------------------------------------------------------------------------
(* Program constants. *)

\* search_kwargs={"k": 8}
K == 8
\* unique_sources[:5]
MaxSources == 5

NA == <<"N/A">>
EmptyStr == <<>>
DocsDomain == "docs.atlan.com"
DeveloperDomain == "developer.atlan.com"

VectorStoreUnavailable == "Vector store is not available."
LLMFailurePrefix == "Failed to generate an answer from the LLM: "
InsufficientAnswer ==
  "I do not have enough information to answer this question based on the available knowledge base. Please try rephrasing your question or contact our support team for assistance."

-----------------------------------------------------------------------------
(* Strings: str.lower(), the `in` substring test, and str comparison. *)

\* The tokens URLs are made of, from the smallest to the largest in code-point
\* order ("/" 47 < "D" 68 < "N" 78 < "b" 98 < "d" 100 < "h" 104 < "n" 110).
TokenOrder ==
  << "/A", "/a", "/b", "/c", "DOCS.ATLAN.COM", "N/A", "blog.example.com",
     "developer.atlan.com", "docs.atlan.com", "https://", "n/a" >>

TokRank(t) == CHOOSE i \in DOMAIN TokenOrder : TokenOrder[i] = t

LowerTok(t) ==
  CASE t = "/A" -> "/a"
    [] t = "DOCS.ATLAN.COM" -> "docs.atlan.com"
    [] t = "N/A" -> "n/a"
    [] OTHER -> t

Lower(s) == IF s = <<>> THEN <<>> ELSE [i \in 1..Len(s) |-> LowerTok(s[i])]

\* `tok in s` for a domain literal tok.
Contains(s, tok) == \E i \in DOMAIN s : s[i] = tok

\* a < b on strings.
StrLess(a, b) ==
  \E i \in 1..(Len(a) + 1) :
     /\ i <= Len(b)
     /\ \A j \in 1..(i - 1) : a[j] = b[j]
     /\ \/ i = Len(a) + 1
        \/ TokRank(a[i]) < TokRank(b[i])

\* dict.get(key, default) on a chunk's metadata.
MetaGet(metadata, key, default) ==
  IF key \in DOMAIN metadata THEN metadata[key] ELSE default

-----------------------------------------------------------------------------
(* Source prioritisation: source_key and sorted(relevant_docs, key=...). *)

source_key_no_tier(doc) ==
  <<1, Lower(MetaGet(doc.metadata, "source", EmptyStr))>>

source_key(doc) ==
  LET src == Lower(MetaGet(doc.metadata, "source", EmptyStr))
  IN  IF Contains(src, DocsDomain) \/ Contains(src, DeveloperDomain)
      THEN <<0, src>>
      ELSE <<1, src>>

KeyLessTierOnly(k1, k2) == k1[1] < k2[1]

\* Tuple comparison k1 < k2 of two keys (tier, src).
KeyLess(k1, k2) ==
  \/ k1[1] < k2[1]
  \/ k1[1] = k2[1] /\ StrLess(k1[2], k2[2])

RECURSIVE InsertByKeyUnstable(_, _)
InsertByKeyUnstable(doc, s) ==
  IF s = <<>> THEN <<doc>>
  ELSE IF ~((source_key(s[1])[1] < source_key(doc)[1]) \/
            (source_key(s[1])[1] = source_key(doc)[1] /\
             StrLess(source_key(s[1])[2], source_key(doc)[2])))
       THEN <<doc>> \o s
       ELSE <<s[1]>> \o InsertByKeyUnstable(doc, Tail(s))

\* sorted() is stable: a document is placed after the documents already placed
\* whose key is not greater than its own.
RECURSIVE InsertByKey(_, _)
InsertByKey(doc, s) ==
  IF s = <<>> THEN <<doc>>
  ELSE IF KeyLess(source_key(doc), source_key(s[1]))
       THEN <<doc>> \o s
       ELSE <<s[1]>> \o InsertByKey(doc, Tail(s))

RECURSIVE SortFrom(_, _)
SortFrom(docs, acc) ==
  IF docs = <<>> THEN acc
  ELSE SortFrom(Tail(docs), InsertByKey(docs[1], acc))

sorted_docs(relevant_docs) == SortFrom(relevant_docs, <<>>)

-----------------------------------------------------------------------------
(* Source extraction. *)

InSeq(x, s) == \E i \in DOMAIN s : s[i] = x

RECURSIVE CollectSourcesBackwards(_, _)
CollectSourcesBackwards(docs, sources) ==
  IF docs = <<>> THEN sources
  ELSE LET source_url == MetaGet(docs[Len(docs)].metadata, "source", NA)
       IN  CollectSourcesBackwards(SubSeq(docs, 1, Len(docs) - 1),
             IF source_url # NA /\ ~InSeq(source_url, sources)
             THEN Append(sources, source_url)
             ELSE sources)

RECURSIVE CollectSourcesKeepNA(_, _)
CollectSourcesKeepNA(docs, sources) ==
  IF docs = <<>> THEN sources
  ELSE LET source_url == MetaGet(docs[1].metadata, "source", NA)
       IN  CollectSourcesKeepNA(Tail(docs),
             IF ~InSeq(source_url, sources)
             THEN Append(sources, source_url)
             ELSE sources)

\* for doc in sorted_docs: if source_url != 'N/A' and source_url not in sources
RECURSIVE CollectSources(_, _)
CollectSources(docs, sources) ==
  IF docs = <<>> THEN sources
  ELSE LET source_url == MetaGet(docs[1].metadata, "source", NA)
       IN  CollectSources(Tail(docs),
             IF source_url # NA /\ ~InSeq(source_url, sources)
             THEN Append(sources, source_url)
             ELSE sources)

\* for s in sources: if s and s not in unique_sources
RECURSIVE UniqueSources(_, _)
UniqueSources(sources, unique_sources) ==
  IF sources = <<>> THEN unique_sources
  ELSE UniqueSources(Tail(sources),
         IF sources[1] # EmptyStr /\ ~InSeq(sources[1], unique_sources)
         THEN Append(unique_sources, sources[1])
         ELSE unique_sources)

\* s[:n]
Take(s, n) == IF Len(s) <= n THEN s ELSE SubSeq(s, 1, n)

extract_sources_uncapped(docs) ==
  UniqueSources(CollectSources(docs, <<>>), <<>>)

extract_sources(docs) ==
  Take(UniqueSources(CollectSources(docs, <<>>), <<>>), MaxSources)

-----------------------------------------------------------------------------
(* The knowledge base file and the index builder. *)

\* A whitespace-only paragraph.  The content of a knowledge-base record is the
\* sequence of its paragraphs; "" is <<>>.
Blank == " "

Url(host, path) == <<"https://", host, path>>

\* Knowledge-base records (JSON objects, or a JSON value that is no object).
DocSso       == [url |-> Url("docs.atlan.com", "/a"), content |-> <<"t1">>]
DocBlogLong  == [url |-> Url("blog.example.com", "/b"), content |-> <<"t2", Blank, "t3">>]
DocUpper     == [url |-> Url("DOCS.ATLAN.COM", "/A"), content |-> <<"t4">>]
DocDeveloper == [url |-> Url("developer.atlan.com", "/c"), content |-> <<"t5">>]
DocBlogC     == [url |-> Url("blog.example.com", "/c"), content |-> <<"t6">>]
DocDocsB     == [url |-> Url("docs.atlan.com", "/b"), content |-> <<"t7">>]
DocBlogB     == [url |-> Url("blog.example.com", "/b"), content |-> <<"t10">>]
DocDevA      == [url |-> Url("developer.atlan.com", "/a"), content |-> <<"t11">>]
DocSsoFaq    == [url |-> Url("docs.atlan.com", "/a"), content |-> <<"t12">>]
DocNA        == [url |-> NA, content |-> <<"t8">>]
DocNoUrl     == [content |-> <<"t9">>]
EmptyContent == [url |-> Url("docs.atlan.com", "/c"), content |-> <<>>]
NoContent    == [url |-> Url("docs.atlan.com", "/c")]
BlankContent == [url |-> Url("blog.example.com", "/a"), content |-> <<Blank>>]
NonObject    == [nonobject |-> "text"]

KbAbsent == [kind |-> "absent", data |-> <<>>]
\* The file exists but open() or json.load() raises.
KbUnreadable == [kind |-> "unreadable", data |-> <<>>]
KbJson(data) == [kind |-> "json", data |-> data]

\* The records of universe at the positions S, in the order of universe.
RECURSIVE PickFrom(_, _)
PickFrom(universe, S) ==
  IF S = {} THEN <<>>
  ELSE LET i == CHOOSE x \in S : \A y \in S : x <= y
       IN  <<universe[i]>> \o PickFrom(universe, S \ {i})

\* The knowledge bases of at most m records drawn from universe.
KbsOf(universe, m) ==
  { KbJson(PickFrom(universe, S)) :
      S \in { T \in SUBSET (1..Len(universe)) : Cardinality(T) <= m } }

\* os.path.isdir(VECTOR_STORE_PATH) and any(os.scandir(VECTOR_STORE_PATH))
IndexPopulatedInverted(ix) == ~(ix.exists /\ ix.files)

IndexPopulated(ix) == ix.exists /\ ix.files

\* os.path.isfile(KNOWLEDGE_BASE_PATH)
KbIsFile(kbv) == kbv.kind # "absent"

\* json.load under try/except: anything that raises gives [].
LoadKbData(kbv) == IF kbv.kind = "json" THEN kbv.data ELSE <<>>

ItemGet(item, key, default) == IF key \in DOMAIN item THEN item[key] ELSE default

\* item.get raises AttributeError on a JSON value that is no object.
ItemsRaise(kb_data) == \E i \in DOMAIN kb_data : "nonobject" \in DOMAIN kb_data[i]

DocumentsKeepEmpty(kb_data) ==
  [i \in 1..Len(kb_data) |->
     [page_content |-> ItemGet(kb_data[i], "content", <<>>),
      metadata |-> [source |-> ItemGet(kb_data[i], "url", EmptyStr)]]]

\* The list comprehension: one Document per record whose content is truthy.
RECURSIVE Documents(_)
Documents(kb_data) ==
  IF kb_data = <<>> THEN <<>>
  ELSE LET item == kb_data[1]
       IN  IF ItemGet(item, "content", <<>>) # <<>>
           THEN <<[page_content |-> ItemGet(item, "content", <<>>),
                   metadata |-> [source |-> ItemGet(item, "url", EmptyStr)]]>>
                \o Documents(Tail(kb_data))
           ELSE Documents(Tail(kb_data))

\* The splitter cuts a text at paragraph boundaries and strips each piece; a
\* piece that is empty after stripping gives no chunk.
SplitText(text) == SelectSeq(text, LAMBDA p : p # Blank)

ChunksOf(doc) ==
  LET pieces == SplitText(doc.page_content)
  IN  IF pieces = <<>> THEN <<>>
      ELSE [i \in 1..Len(pieces) |->
              [page_content |-> pieces[i], metadata |-> doc.metadata]]

RECURSIVE SplitDocuments(_)
SplitDocuments(documents) ==
  IF documents = <<>> THEN <<>>
  ELSE ChunksOf(documents[1]) \o SplitDocuments(Tail(documents))

\* if not chunks
NothingToIndexIfNone(chunks) == FALSE

NothingToIndex(chunks) == chunks = <<>>

NoSteps == [kb_read |-> FALSE, chunked |-> FALSE, embedded |-> FALSE, wrote |-> FALSE]

EnsureReturn(ix, path, steps, raised, built) ==
  [index |-> ix, path |-> path, steps |-> steps, raised |-> raised, built |-> built]

\* _ensure_local_vector_store on knowledge base kbv and index path ix;
\* emb and store are the outcomes of HuggingFaceEmbeddings(...) and of
\* Chroma.from_documents(...): "ok" or "raise".  The directory is made before
\* either; a from_documents that raises has created the database file and
\* added no record; one that succeeds adds the chunks to the records the path
\* holds.  The result names the return path taken and the steps performed.
EnsureLocalVectorStore(kbv, ix, emb, store) ==
  IF IndexPopulated(ix)
    THEN EnsureReturn(ix, "skipped", NoSteps, FALSE, FALSE)
  ELSE IF ~KbIsFile(kbv)
    THEN EnsureReturn(ix, "no_kb_file", NoSteps, FALSE, FALSE)
  ELSE
    LET kb_data == LoadKbData(kbv)
        read == [NoSteps EXCEPT !.kb_read = TRUE]
    IN
    IF kb_data = <<>>
      THEN EnsureReturn(ix, "no_kb_data", read, FALSE, FALSE)
    ELSE IF ItemsRaise(kb_data)
      THEN EnsureReturn(ix, "item_raised", read, TRUE, FALSE)
    ELSE
      LET documents == Documents(kb_data) IN
      IF documents = <<>>
        THEN EnsureReturn(ix, "no_documents", read, FALSE, FALSE)
      ELSE
        LET chunks == SplitDocuments(documents)
            split == [read EXCEPT !.chunked = TRUE]
            made == [ix EXCEPT !.exists = TRUE]
        IN
        IF NothingToIndex(chunks)
          THEN EnsureReturn(ix, "no_chunks", split, FALSE, FALSE)
        ELSE IF emb = "raise"
          THEN EnsureReturn(made, "embeddings_raised",
                            [split EXCEPT !.wrote = TRUE], TRUE, FALSE)
        ELSE IF store = "raise"
          THEN EnsureReturn([made EXCEPT !.files = TRUE], "store_raised",
                            [split EXCEPT !.wrote = TRUE, !.embedded = TRUE],
                            TRUE, FALSE)
        ELSE EnsureReturn([exists |-> TRUE, files |-> TRUE,
                           records |-> ix.records \o chunks],
                          "built",
                          [split EXCEPT !.wrote = TRUE, !.embedded = TRUE],
                          FALSE, TRUE)

\* Chroma(persist_directory=...) under try/except: opening the store creates
\* the directory and its database file when they are missing; a failure gives
\* None and leaves the path as it was.
OpenVectorStore(ix, open) ==
  IF open = "raise"
  THEN [index |-> ix, vector_store |-> "None"]
  ELSE [index |-> [ix EXCEPT !.exists = TRUE, !.files = TRUE],
        vector_store |-> "Chroma"]

\* _load_vector_store after the ensure e, and the rest of __init__: an
\* exception of the ensure, or of HuggingFaceEmbeddings(...) at line 113,
\* which is outside the try, leaves no pipeline object and the path as the
\* ensure left it.
LoadVectorStore(e, emb, open) ==
  IF e.raised \/ emb = "raise"
  THEN [raised |-> TRUE, index |-> e.index, vector_store |-> "NoPipeline"]
  ELSE [raised |-> FALSE, index |-> OpenVectorStore(e.index, open).index,
        vector_store |-> OpenVectorStore(e.index, open).vector_store]

-----------------------------------------------------------------------------
(* get_rag_answer. *)

Min(a, b) == IF a <= b THEN a ELSE b

\* retriever.invoke(question) with k = 8: it raises, or returns the min(k, n)
\* nearest of the n records of the index, in the order of their similarity to
\* the question, which is the embedding model's to decide.
RetrievalOutcomes(ix) ==
  LET n == Len(ix.records)
  IN  { [kind |-> "raise", docs |-> <<>>] }
      \cup { [kind |-> "docs", docs |-> [i \in 1..Min(K, n) |-> ix.records[a[i]]]] :
               a \in Permutations(1..n) }

\* llm.generate_content(prompt) raises, or returns a response whose .text
\* raises, is a text, or is None.
LLMOutcomes ==
  { [kind |-> "raise", detail |-> "quota exceeded", text |-> ""],
    [kind |-> "text_raise", detail |-> "response blocked", text |-> ""],
    [kind |-> "text", detail |-> "", text |-> "To enable SSO, go to Settings."],
    [kind |-> "text_none", detail |-> "", text |-> ""] }

Questions == { "How do I enable SSO?" }

\* "\n\n".join(texts)
RECURSIVE Join(_)
Join(texts) ==
  IF texts = <<>> THEN <<>>
  ELSE IF Len(texts) = 1 THEN texts
  ELSE <<texts[1], "\n\n">> \o Join(Tail(texts))

PageContents(docs) ==
  IF docs = <<>> THEN <<>> ELSE [i \in 1..Len(docs) |-> docs[i].page_content]

NoResult == [none |-> TRUE]
NoPrompt == [context |-> <<>>, question |-> ""]

\* What one call did: how it ended (status), what it returned (result), and
\* the external steps it took: the outcome of the retrieval and of the model
\* call ("not_called" when the step was not taken), the number of model calls.
CallRecord(status, question, result, retrieval, docs, prioritized, prompt, generation, llm_calls) ==
  [status |-> status, question |-> question, result |-> result,
   retrieval |-> retrieval, relevant_docs |-> docs, prioritized |-> prioritized,
   prompt |-> prompt, generation |-> generation, llm_calls |-> llm_calls]

NoCall ==
  CallRecord("none", "", NoResult, "not_called", <<>>, <<>>, NoPrompt,
             "not_called", 0)

\* if self.vector_store is None
StoreUnavailableNever(vs) == FALSE

StoreUnavailable(vs) == vs = "None"

\* if not relevant_docs
NoEvidenceIfNone(relevant_docs) == FALSE

NoEvidence(relevant_docs) == relevant_docs = <<>>

\* The try block: one call of generate_content, then response.text or "";
\* an exception of either is caught and gives the error text.
GenerationWithRetry(llm) ==
  [failed |-> llm.kind \in {"raise", "text_raise"},
   error |-> <<LLMFailurePrefix, llm.detail>>,
   answer_text |-> IF llm.kind = "text_none" THEN "" ELSE llm.text,
   calls |-> IF llm.kind = "raise" THEN 2 ELSE 1]

Generation(llm) ==
  [failed |-> llm.kind \in {"raise", "text_raise"},
   error |-> <<LLMFailurePrefix, llm.detail>>,
   answer_text |-> IF llm.kind = "text_none" THEN "" ELSE llm.text,
   calls |-> 1]

\* get_rag_answer(question) on a pipeline whose vector store is vs, with the
\* outcomes of the retrieval and of the model call.
get_rag_answer(vs, question, retrieval, llm) ==
  IF StoreUnavailable(vs)
    THEN CallRecord("returned", question, [error |-> <<VectorStoreUnavailable>>],
                    "not_called", <<>>, <<>>, NoPrompt, "not_called", 0)
  \* as_retriever on anything but an opened store raises, as the retrieval may.
  ELSE IF retrieval.kind = "raise" \/ vs # "Chroma"
    THEN CallRecord("raised", question, NoResult, "raise", <<>>, <<>>, NoPrompt,
                    "not_called", 0)
  ELSE
    LET relevant_docs == retrieval.docs IN
    IF NoEvidence(relevant_docs)
      THEN CallRecord("returned", question,
                      [answer |-> InsufficientAnswer, sources |-> <<>>],
                      "docs", relevant_docs, <<>>, NoPrompt, "not_called", 0)
    ELSE
      LET prioritized == sorted_docs(relevant_docs)
          context_str == Join(PageContents(prioritized))
          prompt == [context |-> context_str, question |-> question]
          g == Generation(llm)
          result ==
            IF g.failed
            THEN [error |-> g.error]
            ELSE [answer |-> g.answer_text,
                  sources |-> extract_sources(prioritized),
                  context_used |-> Len(relevant_docs)]
      IN  CallRecord("returned", question, result, "docs", relevant_docs,
                     prioritized, prompt, llm.kind, g.calls)

-----------------------------------------------------------------------------
(* Python values, as json.loads gives them and as classify_ticket returns   *)
(* them.  A dict is its mapping of keys to values, a list its sequence of   *)
(* items, a str its sequence of tokens.                                     *)

PyDict(fields) == [type |-> "dict", fields |-> fields]
PyList(items) == [type |-> "list", items |-> items]
PyStr(s) == [type |-> "str", s |-> s]
PyNone == [type |-> "NoneType"]
PyInt(n) == [type |-> "int", n |-> n]

\* `key in v` for a str key: a key of a dict, an item of a list, a substring
\* of a str; any other value raises TypeError.
PyInRaises(v) == v.type \notin {"dict", "list", "str"}

PyIn(key, v) ==
  CASE v.type = "dict" -> key \in DOMAIN v.fields
    [] v.type = "list" -> \E i \in DOMAIN v.items : v.items[i] = PyStr(<<key>>)
    [] v.type = "str" -> Contains(v.s, key)
    [] OTHER -> FALSE

\* str.strip() and str.rstrip() on a sequence of pieces, ws the whitespace ones.
RECURSIVE LStrip(_, _)
LStrip(s, ws) ==
  IF s = <<>> THEN <<>>
  ELSE IF s[1] \in ws THEN LStrip(Tail(s), ws) ELSE s

RECURSIVE RStrip(_, _)
RStrip(s, ws) ==
  IF s = <<>> THEN <<>>
  ELSE IF s[Len(s)] \in ws THEN RStrip(SubSeq(s, 1, Len(s) - 1), ws) ELSE s

StripSeq(s, ws) == RStrip(LStrip(s, ws), ws)

-----------------------------------------------------------------------------
(* The classifier (src/pipeline/classifier.py).  The text of a model        *)
(* response is a sequence of pieces: a code fence, whitespace, prose, or    *)
(* the JSON text of a value.                                                *)

\* The opening fence with its language tag, and the bare fence.
FenceJson == [kind |-> "fence_json"]
Fence == [kind |-> "fence"]
Newline == [kind |-> "whitespace"]
Prose == [kind |-> "prose", text |-> "Here is the classification:"]
JsonText(v) == [kind |-> "json", value |-> v]

EmptyTicketError == "Input ticket text cannot be empty."
DecodeError == "Failed to decode JSON from LLM response."
UnexpectedErrorPrefix == "An unexpected error occurred: "

required_keys == <<"topic_tags", "sentiment", "priority">>

\* response_text.strip(), the two replace() calls that delete the fences, and
\* strip() again.
clean_llm_response(response_text) ==
  StripSeq(SelectSeq(StripSeq(response_text, {Newline}),
                     LAMBDA p : p \notin {FenceJson, Fence}),
           {Newline})

\* json.loads: the text is one JSON value, or JSONDecodeError is raised.
JsonDecodes(text) == Len(text) = 1 /\ text[1].kind = "json"
JsonLoads(text) == text[1].value

\* all(key in classification for key in required_keys): it stops at the first
\* key that is missing, and raises where `in` raises.
HasRequiredKeys(classification) ==
  \A i \in DOMAIN required_keys : PyIn(required_keys[i], classification)

ClassifyReturn(status, ticket_text, result, model_calls) ==
  [status |-> status, ticket_text |-> ticket_text, result |-> result,
   model_calls |-> model_calls]

\* classify_ticket(ticket_text), m the outcome of the model call: it raises
\* (generate_content, or reading response.text), or gives a response text.
classify_ticket(ticket_text, m) ==
  IF ticket_text = <<>>
    THEN ClassifyReturn("returned", ticket_text,
                        PyDict([error |-> <<EmptyTicketError>>]), 0)
  ELSE IF m.kind \in {"raise", "text_raise"}
    THEN ClassifyReturn("returned", ticket_text,
                        PyDict([error |-> <<UnexpectedErrorPrefix, m.detail>>]), 1)
  ELSE
    LET cleaned_response == clean_llm_response(m.text) IN
    IF ~JsonDecodes(cleaned_response)
      THEN ClassifyReturn("returned", ticket_text,
                          PyDict([error |-> <<DecodeError>>,
                                  raw_response |-> m.text]), 1)
    ELSE
      LET classification == JsonLoads(cleaned_response) IN
      IF PyInRaises(classification)
        THEN ClassifyReturn("returned", ticket_text,
               PyDict([error |-> <<UnexpectedErrorPrefix,
                                   "argument is not iterable">>]), 1)
      \* The message of the ValueError reads classification.keys(), which
      \* raises in its turn on a value that has none.
      ELSE IF ~HasRequiredKeys(classification)
        THEN ClassifyReturn("returned", ticket_text,
               PyDict([error |-> <<UnexpectedErrorPrefix,
                         IF classification.type = "dict"
                         THEN "LLM response is missing one or more required keys."
                         ELSE "object has no attribute keys">>]), 1)
      ELSE ClassifyReturn("returned", ticket_text, classification, 1)

\* The topic tags of the classification prompt that get a direct answer, those
\* that do not, and spellings the prompt does not list.
TagUniverse ==
  << <<"How-to">>, <<"Product">>, <<"Best practices">>, <<"API/SDK">>, <<"SSO">>,
     <<"Connector">>, <<"Lineage">>, <<" ", "SSO", " ">>, <<"sso">> >>

TagStrings(S) ==
  LET picked == PickFrom(TagUniverse, S)
  IN  IF picked = <<>> THEN <<>>
      ELSE [i \in 1..Len(picked) |-> PyStr(picked[i])]

TagLists ==
  { PyList(TagStrings(S)) :
      S \in { T \in SUBSET (1..Len(TagUniverse)) : Cardinality(T) <= MaxTags } }

Classification(topic_tags) ==
  PyDict([topic_tags |-> topic_tags, sentiment |-> PyStr(<<"Curious">>),
          priority |-> PyStr(<<"P2 (Low)">>)])

\* The JSON object double-encoded as a JSON string.
DoubleEncoded ==
  PyStr(<<"{", "topic_tags", ": [", "SSO", "], ", "sentiment", ": ", "Curious",
          ", ", "priority", ": ", "P2 (Low)", "}">>)

\* JSON values a response may hold: the object asked for, an object whose
\* topic_tags is null, objects that lack keys, and values that are no object.
JsonValues ==
  { Classification(t) : t \in TagLists }
  \cup { Classification(PyNone),
         PyDict([topic_tags |-> PyList(<<PyStr(<<"SSO">>)>>),
                 sentiment |-> PyStr(<<"Curious">>)]),
         PyDict([category |-> PyStr(<<"SSO">>)]),
         PyList(<<PyStr(<<"SSO">>)>>),
         PyList(<<PyStr(<<"topic_tags">>), PyStr(<<"sentiment">>),
                  PyStr(<<"priority">>)>>),
         PyStr(<<"SSO">>),
         DoubleEncoded,
         PyInt(0),
         PyNone }

\* The texts a response may be: the JSON text alone, inside a code fence,
\* followed by a newline, after a line of prose; prose alone; nothing.
ResponseTexts ==
  UNION { { <<JsonText(v)>>,
            <<FenceJson, Newline, JsonText(v), Newline, Fence>>,
            <<JsonText(v), Newline>>,
            <<Prose, Newline, JsonText(v)>> } : v \in JsonValues }
  \cup { <<Prose>>, <<>> }

ClassifierOutcomes ==
  { [kind |-> "raise", detail |-> "quota exceeded", text |-> <<>>],
    [kind |-> "text_raise", detail |-> "response blocked", text |-> <<>>] }
  \cup { [kind |-> "text", detail |-> "", text |-> t] : t \in ResponseTexts }

\* Ticket texts: empty, whitespace only, a question, a question in whitespace.
TicketTexts ==
  { <<>>, <<" ">>, <<"How do I enable SSO?">>, <<" ", "How do I enable SSO?", " ">> }

-----------------------------------------------------------------------------
(* The life cycle of the index and of a pipeline. *)

AbsentIndex == [exists |-> FALSE, files |-> FALSE, records |-> <<>>]

NoEnsure ==
  [path |-> "none", steps |-> NoSteps, raised |-> FALSE,
   before |-> AbsentIndex, after |-> AbsentIndex]

EnsureLog(e, before) ==
  [path |-> e.path, steps |-> e.steps, raised |-> e.raised,
   before |-> before, after |-> e.index]

LifecycleItems ==
  <<DocSso, DocBlogLong, EmptyContent, NoContent, BlankContent, NonObject>>

LifecycleKbs == {KbAbsent, KbUnreadable} \cup KbsOf(LifecycleItems, MaxDocs)

\* Pages with pairwise different sources of both tiers, and pages among which
\* a source repeats, is the "N/A" placeholder or is missing.
CitableItems ==
  <<DocSso, DocUpper, DocDeveloper, DocBlogC, DocDocsB, DocBlogB, DocDevA>>
OddItems ==
  <<DocSso, DocSsoFaq, DocUpper, DocDeveloper, DocBlogC, DocNA, DocNoUrl>>

QueryKbs == KbsOf(CitableItems, MaxIndexedDocs) \cup KbsOf(OddItems, MaxIndexedDocs)

NoValue == [type |-> "none"]

NoPage == [status |-> "none"]
NoClassified == [status |-> "none"]
NoStripped == [status |-> "none"]
NoQueried == [status |-> "none"]
NoChunker == [called |-> FALSE, documents |-> <<>>, chunks |-> <<>>]

\* No app run, no classifier call, no strip call and no query has happened.
NoApp ==
  /\ page = NoPage /\ classified = NoClassified /\ stripped = NoStripped
  /\ queried = NoQueried
\* No build is in progress and the chunker has not been called.
NoBuild == ensuring = <<>> /\ chunker = NoChunker

TypeOK ==
  /\ kb.kind \in {"absent", "unreadable", "json"}
  /\ index.exists \in BOOLEAN /\ index.files \in BOOLEAN
  /\ vector_store \in {"NoPipeline", "None", "Chroma"}
  /\ constructions \in 0..MaxConstructions
  /\ builds \in Nat
  /\ call.status \in {"none", "returned", "raised"}
  /\ page.status \in {"none", "nothing", "rendered", "raised"}
  /\ classified.status \in {"none", "called", "returned"}
  /\ stripped.status \in {"none", "called", "returned"}
  /\ queried.status \in {"none", "returned", "raised"}
  /\ \A p \in DOMAIN ensuring :
       ensuring[p].pc \in {"start", "checked", "chunked", "ensured", "raised", "done"}
  /\ chunker.called \in BOOLEAN

Init ==
  /\ kb \in LifecycleKbs
  /\ index = AbsentIndex
  /\ vector_store = "NoPipeline"
  /\ constructions = 0
  /\ builds = 0
  /\ ensure_log = NoEnsure
  /\ call = NoCall
  /\ NoApp
  /\ NoBuild

\* RAGPipeline(): _load_vector_store, which runs _ensure_local_vector_store and
\* then opens the store.  An exception of the build leaves no pipeline object.
Construct(emb, store, open) ==
  /\ constructions < MaxConstructions
  /\ LET e == EnsureLocalVectorStore(kb, index, emb, store)
         l == LoadVectorStore(e, emb, open)
     IN  /\ ensure_log' = EnsureLog(e, index)
         /\ builds' = IF e.built THEN builds + 1 ELSE builds
         /\ index' = l.index
         /\ vector_store' = l.vector_store
  /\ constructions' = constructions + 1
  /\ call' = NoCall
  /\ UNCHANGED <<kb, appVars, buildVars>>

\* The crawler, or anything else, rewrites or removes the knowledge base file.
KbWrite(newkb) ==
  /\ newkb # kb
  /\ kb' = newkb
  /\ UNCHANGED <<index, vector_store, constructions, builds, ensure_log, call,
               appVars, buildVars>>

\* A caller calls get_rag_answer on the pipeline.
GetRagAnswer(question, retrieval, llm) ==
  /\ vector_store \in {"None", "Chroma"}
  /\ call.status = "none"
  /\ call' = get_rag_answer(vector_store, question, retrieval, llm)
  /\ UNCHANGED <<kb, index, vector_store, constructions, builds, ensure_log,
               appVars, buildVars>>

\* The caller has used the outcome of the call.
Consume ==
  /\ call.status # "none"
  /\ call' = NoCall
  /\ UNCHANGED <<kb, index, vector_store, constructions, builds, ensure_log,
               appVars, buildVars>>

Next ==
  \/ \E emb \in {"ok", "raise"}, store \in {"ok", "raise"}, open \in {"ok", "raise"} :
        Construct(emb, store, open)
  \/ \E newkb \in LifecycleKbs : KbWrite(newkb)
  \/ /\ call.status = "none"
     /\ \E q \in Questions, r \in RetrievalOutcomes(index), l \in LLMOutcomes :
           GetRagAnswer(q, r, l)
  \/ Consume

Spec == Init /\ [][Next]_vars

\* Queries on a pipeline constructed over a fresh index path, its build
\* completed and its store opened.
InitQuery ==
  /\ kb \in QueryKbs
  /\ LET e == EnsureLocalVectorStore(kb, AbsentIndex, "ok", "ok")
         l == OpenVectorStore(e.index, "ok")
     IN  /\ index = l.index
         /\ ensure_log = EnsureLog(e, AbsentIndex)
         /\ builds = IF e.built THEN 1 ELSE 0
  /\ vector_store = "Chroma"
  /\ constructions = 1
  /\ call = NoCall
  /\ NoApp
  /\ NoBuild

NextQuery ==
  \/ /\ call.status = "none"
     /\ \E q \in Questions, r \in RetrievalOutcomes(index), l \in LLMOutcomes :
           GetRagAnswer(q, r, l)
  \/ Consume

SpecQuery == InitQuery /\ [][NextQuery]_vars

-----------------------------------------------------------------------------
(* strip_sources_from_answer (src/app.py).  An answer is the sequence of    *)
(* its tokens: a line break, a blank, a word, or a heading.  No token is a  *)
(* prefix of another, so a marker occurs in the text where its tokens occur *)
(* in the sequence.  "[books]" stands for the books emoji of the source.    *)

\* Tokens of answers of the model.
AnswerTokens == { "\n", " ", "Use", "Sources:", "SOURCES:", "**Source:**" }

\* str.lower() on a token of an answer or of a marker.
LowerWord(t) ==
  CASE t = "Use" -> "use"
    [] t \in {"Sources:", "SOURCES:"} -> "sources:"
    [] t = "Source:" -> "source:"
    [] t = "**Sources:**" -> "**sources:**"
    [] t = "**Source:**" -> "**source:**"
    [] t = "[books] Sources:" -> "[books] sources:"
    [] OTHER -> t

LowerText(s) == IF s = <<>> THEN <<>> ELSE [i \in 1..Len(s) |-> LowerWord(s[i])]

markers ==
  << <<"\n", "Sources:">>, <<"\n", "Source:">>, <<"\n", "**Sources:**">>,
     <<"\n", "**Source:**">>, <<"\n", "[books] Sources:">> >>

\* str.find: the index, from 0, of the first occurrence of sub in s, or -1.
Find(s, sub) ==
  LET at == { i \in 1..(Len(s) - Len(sub) + 1) : SubSeq(s, i, i + Len(sub) - 1) = sub }
  IN  IF at = {} THEN -1 ELSE (CHOOSE i \in at : \A j \in at : i <= j) - 1

\* answer_text.lower().find(m.lower())
MarkerIndexUnanchored(answer_text, m) ==
  Find(LowerText(answer_text), Tail(LowerText(m)))

MarkerIndex(answer_text, m) == Find(LowerText(answer_text), LowerText(m))

\* The loop over markers: the index of the first marker of the list that
\* occurs in the text, or -1 (cut_idx is None).
RECURSIVE CutIndex(_, _)
CutIndex(answer_text, ms) ==
  IF ms = <<>> THEN -1
  ELSE LET idx == MarkerIndex(answer_text, ms[1])
       IN  IF idx # -1 THEN idx ELSE CutIndex(answer_text, Tail(ms))

strip_sources_from_answer(answer_text) ==
  IF answer_text = <<>> THEN <<>>
  ELSE LET cut_idx == CutIndex(answer_text, markers)
       IN  IF cut_idx # -1
           THEN RStrip(SubSeq(answer_text, 1, cut_idx), {"\n", " "})
           ELSE answer_text

\* The sequences over S of length n, and of length at most n.
RECURSIVE SeqsOfLen(_, _)
SeqsOfLen(S, n) ==
  IF n = 0 THEN { <<>> }
  ELSE { Append(s, x) : s \in SeqsOfLen(S, n - 1), x \in S }

Answers == UNION { SeqsOfLen(AnswerTokens, n) : n \in 0..MaxAnswerLen }

-----------------------------------------------------------------------------
(* The interactive agent of the app (src/app.py): one press of "Analyze and *)
(* Respond".                                                                *)

PRIMARY_TAGS_DIRECT_ANSWER ==
  { <<"How-to">>, <<"Product">>, <<"Best practices">>, <<"API/SDK">>, <<"SSO">> }

Hint == " Prefer official documentation from docs.atlan.com and developer.atlan.com."
RagPipelineErrorPrefix == "RAG pipeline error: "

\* {str(t).strip() for t in topic_tags} over a list of str.
topic_tags_upper(topic_tags) ==
  { StripSeq(topic_tags.items[i].s, {" "}) : i \in DOMAIN topic_tags.items }

should_answer_directly(tags) == \E tag \in tags : tag \in PRIMARY_TAGS_DIRECT_ANSWER

\* The page of one run: the cards it rendered, whether the run entered the
\* branch that uses the RAG pipeline, or that the run ended with an exception.
Page(status, user_input, classification, analysis_card, response_card, rag_invoked, rag_result, routed_topic) ==
  [status |-> status, user_input |-> user_input,
   classification |-> classification, analysis_card |-> analysis_card,
   response_card |-> response_card, rag_invoked |-> rag_invoked,
   rag_result |-> rag_result, routed_topic |-> routed_topic]

\* The run up to the choice of the response branch: the page it ends with
\* when it does not reach the RAG pipeline or the routing message, else the
\* branch it takes.
BeforeResponse(user_input, m) ==
  LET text == StripSeq(user_input, {" "})
      classification == classify_ticket(text, m).result
  IN
  \* if analyze and user_input.strip()
  IF text = <<>>
    THEN [branch |-> "done",
          page |-> Page("nothing", user_input, NoValue, "none", "none", FALSE, NoValue, <<>>)]
  ELSE IF PyIn("error", classification)
    \* classification['error'] on a value that is no dict raises.
    THEN IF classification.type = "dict"
         THEN [branch |-> "done",
               page |-> Page("rendered", user_input, classification, "error",
                             "analysis_failed", FALSE, NoValue, <<>>)]
         ELSE [branch |-> "done",
               page |-> Page("raised", user_input, classification, "none", "none",
                             FALSE, NoValue, <<>>)]
  \* classification.get on a value that is no dict raises.
  ELSE IF classification.type # "dict"
    THEN [branch |-> "done",
          page |-> Page("raised", user_input, classification, "none", "none", FALSE,
                        NoValue, <<>>)]
  \* Line 325 reads `topic_tags or []`; line 349 iterates topic_tags itself.
  ELSE IF classification.fields.topic_tags.type # "list"
    THEN [branch |-> "done",
          page |-> Page("raised", user_input, classification, "analysis", "none",
                        FALSE, NoValue, <<>>)]
  ELSE IF should_answer_directly(topic_tags_upper(classification.fields.topic_tags))
    THEN [branch |-> "answer",
          page |-> Page("rendered", user_input, classification, "analysis", "none",
                        TRUE, NoValue, <<>>)]
  ELSE [branch |-> "route",
        page |-> Page("rendered", user_input, classification, "analysis", "routed",
                      FALSE, NoValue, <<>>)]

\* next(iter(topic_tags_upper), "General"): any element of the set.
RoutedTopics(tags) == IF tags = {} THEN { <<"General">> } ELSE tags

PipelineOfSessionPerRequest(emb, store, open) ==
  LET e == EnsureLocalVectorStore(kb, index, emb, store)
      l == LoadVectorStore(e, emb, open)
  IN  [constructed |-> TRUE, raised |-> l.raised, built |-> e.built,
       index |-> l.index, vector_store |-> l.vector_store,
       log |-> EnsureLog(e, index)]

\* Lines 354-356: the pipeline of the session, constructed when the session
\* has none; a construction that raises leaves the session without one.
PipelineOfSession(emb, store, open) ==
  LET e == EnsureLocalVectorStore(kb, index, emb, store)
      l == LoadVectorStore(e, emb, open)
  IN  IF vector_store # "NoPipeline"
      THEN [constructed |-> FALSE, raised |-> FALSE, built |-> FALSE,
            index |-> index, vector_store |-> vector_store, log |-> ensure_log]
      ELSE [constructed |-> TRUE, raised |-> l.raised, built |-> e.built,
            index |-> l.index, vector_store |-> l.vector_store,
            log |-> EnsureLog(e, index)]

\* The pipelines line 356 may find in the session, over the outcomes of the
\* embedding model, of Chroma.from_documents and of the opening of the store.
SessionPipelines ==
  { PipelineOfSession(emb, store, open) :
      emb \in {"ok", "raise"}, store \in {"ok", "raise"}, open \in {"ok", "raise"} }

\* Line 360: what rag.get_rag_answer(question) may do on the pipeline s; it
\* is not reached when the construction raised.
RagCalls(s, question) ==
  IF s.raised THEN { NoCall }
  ELSE { get_rag_answer(s.vector_store, question, retrieval, llm) :
           retrieval \in RetrievalOutcomes(s.index), llm \in LLMOutcomes }

\* Lines 353-383: the try block, whose exceptions become an error result, and
\* the card of the result.
AnswerDirectly(b, s, c) ==
  LET rag_result ==
        IF s.raised THEN [error |-> <<RagPipelineErrorPrefix, "build failed">>]
        ELSE IF c.status = "raised"
          THEN [error |-> <<RagPipelineErrorPrefix, "retrieval failed">>]
        ELSE c.result
  IN  /\ s.constructed => constructions < MaxConstructions
      /\ index' = s.index
      /\ vector_store' = s.vector_store
      /\ constructions' = IF s.constructed THEN constructions + 1 ELSE constructions
      /\ builds' = IF s.built THEN builds + 1 ELSE builds
      /\ ensure_log' = s.log
      /\ call' = c
      /\ page' = [b.page EXCEPT
                    !.rag_result = rag_result,
                    !.response_card =
                       IF "error" \in DOMAIN rag_result THEN "rag_error" ELSE "answer"]
      /\ UNCHANGED kb

\* The handler of the button, m the outcome of the classifier's model call.
AnalyzeAndRespond(user_input, m) ==
  /\ page.status = "none"
  /\ LET b == BeforeResponse(user_input, m) IN
     CASE b.branch = "done" ->
            /\ page' = b.page
            /\ UNCHANGED ragVars
       [] b.branch = "route" ->
            /\ \E topic \in RoutedTopics(topic_tags_upper(
                                b.page.classification.fields.topic_tags)) :
                  page' = [b.page EXCEPT !.routed_topic = topic]
            /\ UNCHANGED ragVars
       [] b.branch = "answer" ->
            \E s \in SessionPipelines :
              \E c \in RagCalls(s, StripSeq(user_input, {" "}) \o <<Hint>>) :
                AnswerDirectly(b, s, c)
  /\ UNCHANGED <<classified, stripped, queried, buildVars>>

\* The next run of the script starts from an empty page.
Rerun ==
  /\ page.status # "none"
  /\ page' = NoPage
  /\ call' = NoCall
  /\ UNCHANGED <<kb, index, vector_store, constructions, builds, ensure_log,
                 classified, stripped, queried, buildVars>>

\* No knowledge base, one of a page of one chunk, one of a page of two.
AppKbs == { KbAbsent, KbJson(<<DocSso>>), KbJson(<<DocBlogLong>>) }

\* The classifier's model answers with a JSON text, with prose, or raises.
AppClassifierOutcomes ==
  { m \in ClassifierOutcomes : m.kind = "text" => Len(m.text) = 1 }

\* What the text area holds when the button is pressed: blanks only, or a
\* question with blanks around it.
AppTicketTexts == { <<" ">>, <<" ", "How do I enable SSO?", " ">> }

InitApp ==
  /\ kb \in AppKbs
  /\ index = AbsentIndex
  /\ vector_store = "NoPipeline"
  /\ constructions = 0
  /\ builds = 0
  /\ ensure_log = NoEnsure
  /\ call = NoCall
  /\ NoApp
  /\ NoBuild

NextApp ==
  \/ /\ page.status = "none"
     /\ \E user_input \in AppTicketTexts, m \in AppClassifierOutcomes :
           AnalyzeAndRespond(user_input, m)
  \/ Rerun

SpecApp == InitApp /\ [][NextApp]_vars

-----------------------------------------------------------------------------
(* The index builders step by step: RAGPipeline() in several processes      *)
(* (src/pipeline/rag.py) and the build script                               *)
(* (src/scripts/vector_store_script.py), on one knowledge base and one      *)
(* index path.  A step is what a process does between two accesses of the   *)
(* file system that another process can observe.                            *)

\* text_splitter.split_documents(documents): what the chunker was given and
\* what it gave.
ChunkerCall(documents) ==
  [called |-> TRUE, documents |-> documents, chunks |-> SplitDocuments(documents)]

Builders == 1..MaxBuilders

Builder(pc, path, chunks, vector_store_) ==
  [pc |-> pc, path |-> path, chunks |-> chunks, vector_store |-> vector_store_]

SkipsBuildUnlessAlone(p) ==
  \/ IndexPopulated(index)
  \/ \E q \in Builders : q # p /\ ensuring[q].pc \in {"checked", "chunked"}

\* Line 68 as process p evaluates it: the check reads the index path and
\* nothing else.
SkipsBuild(p) == IndexPopulated(index)

\* Lines 66-70: the populated-index check and its early return.
EnsureCheck(p) ==
  /\ ensuring[p].pc = "start"
  /\ ensuring' = [ensuring EXCEPT ![p] =
        IF SkipsBuild(p)
        THEN Builder("ensured", "skipped", <<>>, "NoPipeline")
        ELSE Builder("checked", "none", <<>>, "NoPipeline")]
  /\ UNCHANGED <<ragVars, appVars, chunker>>

\* Lines 72-97: the knowledge base is read, filtered and chunked.
EnsureChunk(p) ==
  /\ ensuring[p].pc = "checked"
  /\ LET kb_data == LoadKbData(kb)
         documents == Documents(kb_data)
     IN  IF ~KbIsFile(kb) \/ kb_data = <<>>
           THEN /\ ensuring' = [ensuring EXCEPT ![p] =
                      Builder("ensured", "no_kb", <<>>, "NoPipeline")]
                /\ UNCHANGED chunker
         ELSE IF ItemsRaise(kb_data)
           THEN /\ ensuring' = [ensuring EXCEPT ![p] =
                      Builder("raised", "item_raised", <<>>, "NoPipeline")]
                /\ UNCHANGED chunker
         ELSE IF documents = <<>>
           THEN /\ ensuring' = [ensuring EXCEPT ![p] =
                      Builder("ensured", "no_documents", <<>>, "NoPipeline")]
                /\ UNCHANGED chunker
         ELSE /\ chunker' = ChunkerCall(documents)
              /\ ensuring' = [ensuring EXCEPT ![p] =
                    IF NothingToIndex(SplitDocuments(documents))
                    THEN Builder("ensured", "no_chunks", <<>>, "NoPipeline")
                    ELSE Builder("chunked", "none", SplitDocuments(documents),
                                 "NoPipeline")]
  /\ UNCHANGED <<ragVars, appVars>>

\* Lines 99-106: makedirs, the embedding model, Chroma.from_documents.
EnsureWrite(p, emb, store) ==
  /\ ensuring[p].pc = "chunked"
  /\ IF emb = "raise"
       THEN /\ index' = [index EXCEPT !.exists = TRUE]
            /\ ensuring' = [ensuring EXCEPT ![p] =
                  Builder("raised", "embeddings_raised", <<>>, "NoPipeline")]
            /\ UNCHANGED builds
     ELSE IF store = "raise"
       THEN /\ index' = [index EXCEPT !.exists = TRUE, !.files = TRUE]
            /\ ensuring' = [ensuring EXCEPT ![p] =
                  Builder("raised", "store_raised", <<>>, "NoPipeline")]
            /\ UNCHANGED builds
     ELSE /\ index' = [exists |-> TRUE, files |-> TRUE,
                       records |-> index.records \o ensuring[p].chunks]
          /\ ensuring' = [ensuring EXCEPT ![p] =
                Builder("ensured", "built", ensuring[p].chunks, "NoPipeline")]
          /\ builds' = builds + 1
  /\ UNCHANGED <<kb, vector_store, constructions, ensure_log, call, appVars, chunker>>

\* Lines 113-120: the embedding model is made, outside the try, and the
\* store is opened.
EnsureOpen(p, emb, open) ==
  /\ ensuring[p].pc = "ensured"
  /\ LET l == OpenVectorStore(index, open)
     IN  IF emb = "raise"
         THEN /\ index' = index
              /\ ensuring' = [ensuring EXCEPT ![p] =
                    Builder("raised", ensuring[p].path, ensuring[p].chunks,
                            "NoPipeline")]
         ELSE /\ index' = l.index
              /\ ensuring' = [ensuring EXCEPT ![p] =
                    Builder("done", ensuring[p].path, ensuring[p].chunks,
                            l.vector_store)]
  /\ UNCHANGED <<kb, vector_store, constructions, builds, ensure_log, call,
                 appVars, chunker>>

\* create_documents_from_data: item['url'] raises KeyError on a record with
\* content and no url, item.get raises on a value that is no object.
CreateDocumentsRaises(data) ==
  \E i \in DOMAIN data :
     \/ "nonobject" \in DOMAIN data[i]
     \/ ItemGet(data[i], "content", <<>>) # <<>> /\ "url" \notin DOMAIN data[i]

RECURSIVE create_documents_from_data(_)
create_documents_from_data(data) ==
  IF data = <<>> THEN <<>>
  ELSE LET item == data[1]
       IN  IF ItemGet(item, "content", <<>>) # <<>>
           THEN <<[page_content |-> item.content, metadata |-> [source |-> item.url]]>>
                \o create_documents_from_data(Tail(data))
           ELSE create_documents_from_data(Tail(data))

\* One run of the build script: load_knowledge_base gives [] for a missing or
\* invalid file; the chunks are added to the store of the path, which the
\* script neither checks nor clears.
ScriptRun(emb, store) ==
  /\ builds < MaxBuilds
  /\ LET scraped_data == LoadKbData(kb)
         raises == CreateDocumentsRaises(scraped_data)
         documents == IF raises THEN <<>> ELSE create_documents_from_data(scraped_data)
         chunked_docs == SplitDocuments(documents)
     IN  IF scraped_data = <<>> \/ raises
           THEN UNCHANGED <<index, builds, chunker>>
         ELSE /\ chunker' = ChunkerCall(documents)
              /\ IF chunked_docs = <<>> \/ emb = "raise"
                   THEN UNCHANGED <<index, builds>>
                 ELSE IF store = "raise"
                   THEN /\ index' = [index EXCEPT !.exists = TRUE, !.files = TRUE]
                        /\ UNCHANGED builds
                 ELSE /\ index' = [exists |-> TRUE, files |-> TRUE,
                                   records |-> index.records \o chunked_docs]
                      /\ builds' = builds + 1
  /\ UNCHANGED <<kb, vector_store, constructions, ensure_log, call, appVars, ensuring>>

BuildItems == <<DocSso, DocBlogLong, EmptyContent, NoContent, BlankContent, DocNoUrl>>

BuildKbs == {KbAbsent, KbUnreadable} \cup KbsOf(BuildItems, MaxDocs)

InitBuild ==
  /\ kb \in BuildKbs
  /\ index = AbsentIndex
  /\ vector_store = "NoPipeline"
  /\ constructions = 0
  /\ builds = 0
  /\ ensure_log = NoEnsure
  /\ call = NoCall
  /\ NoApp
  /\ ensuring = [p \in Builders |-> Builder("start", "none", <<>>, "NoPipeline")]
  /\ chunker = NoChunker

NextBuild ==
  \/ \E p \in Builders : EnsureCheck(p)
  \/ \E p \in Builders : EnsureChunk(p)
  \/ \E p \in Builders, emb \in {"ok", "raise"}, store \in {"ok", "raise"} :
        EnsureWrite(p, emb, store)
  \/ \E p \in Builders, emb \in {"ok", "raise"}, open \in {"ok", "raise"} :
        EnsureOpen(p, emb, open)
  \/ \E emb \in {"ok", "raise"}, store \in {"ok", "raise"} : ScriptRun(emb, store)

SpecBuild == InitBuild /\ [][NextBuild]_vars

\* strip_sources_from_answer on its own, on every answer of the model.
InitStrip ==
  /\ stripped \in { [status |-> "called", answer_text |-> a] : a \in Answers }
  /\ page = NoPage /\ classified = NoClassified /\ queried = NoQueried
  /\ kb = KbAbsent
  /\ index = AbsentIndex
  /\ vector_store = "NoPipeline"
  /\ constructions = 0
  /\ builds = 0
  /\ ensure_log = NoEnsure
  /\ call = NoCall
  /\ NoBuild

StripSourcesFromAnswer ==
  /\ stripped.status = "called"
  /\ stripped' = [status |-> "returned", answer_text |-> stripped.answer_text,
                  result |-> strip_sources_from_answer(stripped.answer_text)]
  /\ UNCHANGED <<ragVars, page, classified, queried, buildVars>>

NextStrip == StripSourcesFromAnswer

SpecStrip == InitStrip /\ [][NextStrip]_vars

\* classify_ticket on its own, on every ticket text and model outcome.
InitClassify ==
  /\ classified \in { [status |-> "called", ticket_text |-> t, model |-> m] :
                         t \in TicketTexts, m \in ClassifierOutcomes }
  /\ page = NoPage /\ stripped = NoStripped /\ queried = NoQueried
  /\ kb = KbAbsent
  /\ index = AbsentIndex
  /\ vector_store = "NoPipeline"
  /\ constructions = 0
  /\ builds = 0
  /\ ensure_log = NoEnsure
  /\ call = NoCall
  /\ NoBuild

ClassifyTicket ==
  /\ classified.status = "called"
  /\ LET c == classify_ticket(classified.ticket_text, classified.model)
     IN  classified' = [status |-> c.status, ticket_text |-> c.ticket_text,
                        model |-> classified.model, result |-> c.result,
                        model_calls |-> c.model_calls]
  /\ UNCHANGED <<ragVars, page, stripped, queried, buildVars>>

NextClassify == ClassifyTicket

SpecClassify == InitClassify /\ [][NextClassify]_vars

-----------------------------------------------------------------------------
(* RAGPipeline.query (src/pipeline/rag.py), the interface method of the     *)
(* pipeline.  A question, a context and the returned text are sequences of  *)
(* the pieces they are put together from.                                   *)

AdditionalContextLabel == "\n\nAdditional context: "
IssuePrefix == "I encountered an issue while processing your request: "
ApologyPrefix == "I'm sorry, I encountered an error while processing your question: "

\* What one call of query did: how it ended, what it returned, and the
\* get_rag_answer call it made.
QueryReturn(status, question, context, rag_call, value) ==
  [status |-> status, question |-> question, context |-> context,
   rag_call |-> rag_call, value |-> value]

queryUncaught(vs, question, context, retrieval, llm) ==
  LET enhanced_question ==
        IF context # <<>> THEN question \o <<AdditionalContextLabel>> \o context
        ELSE question
      c == get_rag_answer(vs, enhanced_question, retrieval, llm)
  IN  IF c.status = "raised"
        THEN QueryReturn("raised", question, context, c, NoValue)
      ELSE IF "error" \in DOMAIN c.result
        THEN QueryReturn("returned", question, context, c,
                         PyStr(<<IssuePrefix>> \o c.result.error))
      ELSE QueryReturn("returned", question, context, c, PyStr(<<c.result.answer>>))

\* query(question, context) on a pipeline whose vector store is vs; the whole
\* body is inside try/except Exception.
query(vs, question, context, retrieval, llm) ==
  LET enhanced_question ==
        IF context # <<>> THEN question \o <<AdditionalContextLabel>> \o context
        ELSE question
      c == get_rag_answer(vs, enhanced_question, retrieval, llm)
  IN  IF c.status = "raised"
        THEN QueryReturn("returned", question, context, c,
                         PyStr(<<ApologyPrefix, "retrieval failed">>))
      ELSE IF "error" \in DOMAIN c.result
        THEN QueryReturn("returned", question, context, c,
                         PyStr(<<IssuePrefix>> \o c.result.error))
      ELSE QueryReturn("returned", question, context, c, PyStr(<<c.result.answer>>))

\* No context, a context of one blank, a context of one sentence.
Contexts == { <<>>, <<" ">>, <<"We sign in with Okta.">> }

AskKbs == AppKbs \cup { KbJson(<<DocSso, DocBlogLong>>) }

\* Queries on a pipeline constructed over a fresh index path; its store
\* opened or failed to open.
InitAsk ==
  /\ kb \in AskKbs
  /\ \E open \in {"ok", "raise"} :
       LET e == EnsureLocalVectorStore(kb, AbsentIndex, "ok", "ok")
           l == LoadVectorStore(e, "ok", open)
       IN  /\ index = l.index
           /\ vector_store = l.vector_store
           /\ ensure_log = EnsureLog(e, AbsentIndex)
           /\ builds = IF e.built THEN 1 ELSE 0
  /\ constructions = 1
  /\ call = NoCall
  /\ NoApp
  /\ NoBuild

\* A caller calls query on the pipeline.
Query(question, context, retrieval, llm) ==
  /\ queried.status = "none"
  /\ LET r == query(vector_store, question, context, retrieval, llm)
     IN  /\ queried' = r
         /\ call' = r.rag_call
  /\ UNCHANGED <<kb, index, vector_store, constructions, builds, ensure_log,
                 page, classified, stripped, buildVars>>

\* The caller has used the returned text.
QueryConsumed ==
  /\ queried.status # "none"
  /\ queried' = NoQueried
  /\ call' = NoCall
  /\ UNCHANGED <<kb, index, vector_store, constructions, builds, ensure_log,
                 page, classified, stripped, buildVars>>

NextAsk ==
  \/ /\ queried.status = "none"
     /\ \E q \in Questions, c \in Contexts, r \in RetrievalOutcomes(index),
           l \in LLMOutcomes :
           Query(<<q>>, c, r, l)
  \/ QueryConsumed

SpecAsk == InitAsk /\ [][NextAsk]_vars

-----------------------------------------------------------------------------
(* Properties. *)

Returned == call.status = "returned"
Called == call.status # "none"
Successful == Returned /\ "sources" \in DOMAIN call.result
ConstructStep == constructions' # constructions

SourceOf(doc) == doc.metadata.source
SourcesOfDocs(docs) == {SourceOf(docs[i]) : i \in DOMAIN docs}
Occurrences(x, s) == Cardinality({i \in DOMAIN s : s[i] = x})

\* C1: whatever external step fails during get_rag_answer (retrieval, the
\* model call, reading the response text), the call returns a result with an
\* `error` field; no call ends with an exception.
C1_FailuresReturnedAsErrors ==
  Called =>
    /\ call.status = "returned"
    /\ (call.retrieval = "raise" \/ call.generation \in {"raise", "text_raise"})
         => "error" \in DOMAIN call.result

\* C2: a construction that finds the index directory existing and non-empty
\* takes no build step (no knowledge-base read, no chunking, no embedding, no
\* write) and leaves the index as it is, whatever the knowledge base holds;
\* and once a build has completed, no later construction builds again.
C2_PopulatedIndexIsNotRebuilt ==
  /\ [][ (ConstructStep /\ index.exists /\ index.files)
           => /\ ensure_log'.steps = NoSteps
              /\ ensure_log'.after = index
              /\ index' = index
              /\ builds' = builds ]_vars
  /\ [][ (ConstructStep /\ builds >= 1)
           => ensure_log'.steps = NoSteps /\ builds' = builds ]_vars

\* A construction skipped the build over an index built from another
\* knowledge base than the present one.
C2_Witness ==
  /\ ensure_log.path = "skipped"
  /\ builds = 1
  /\ Len(index.records) = 2
  /\ kb = KbJson(<<DocSso>>)

\* C3: on a pipeline constructed while the knowledge base was missing or empty
\* and no index existed, every get_rag_answer call returns exactly
\* {error: "Vector store is not available."}.
C3_NoKnowledgeBaseGivesUnavailable ==
  ( /\ ensure_log.path \in {"no_kb_file", "no_kb_data"}
    /\ ~ensure_log.before.exists
    /\ Returned )
  => call.result = [error |-> <<VectorStoreUnavailable>>]

\* C4: when retrieval returns zero chunks, get_rag_answer returns the fixed
\* insufficient-information answer with an empty sources list, no `error`
\* field, and has made no model call.
C4_NoEvidenceIsANormalResult ==
  (Called /\ call.retrieval = "docs" /\ call.relevant_docs = <<>>)
  => /\ call.status = "returned"
     /\ "error" \notin DOMAIN call.result
     /\ call.result.answer = InsufficientAnswer
     /\ call.result.sources = <<>>
     /\ call.generation = "not_called"
     /\ call.llm_calls = 0

C4_Witness ==
  /\ Returned
  /\ call.retrieval = "docs"
  /\ call.relevant_docs = <<>>

\* The hosts of the authoritative domains, in any letter case.
AuthoritativeHosts == {"docs.atlan.com", "developer.atlan.com", "DOCS.ATLAN.COM"}
Authoritative(doc) ==
  \E i \in DOMAIN SourceOf(doc) : SourceOf(doc)[i] \in AuthoritativeHosts

\* C5: the prioritized list holds the retrieved chunks, and in it every chunk
\* of an authoritative domain comes before every chunk of another source.
C5_AuthoritativeChunksFirst ==
  (Called /\ call.retrieval = "docs" /\ call.relevant_docs # <<>>)
  => LET p == call.prioritized
     IN  /\ Len(p) = Len(call.relevant_docs)
         /\ \A d \in {p[i] : i \in DOMAIN p} :
              Occurrences(d, p) = Occurrences(d, call.relevant_docs)
         /\ \A i, j \in DOMAIN p :
              (Authoritative(p[j]) /\ ~Authoritative(p[i])) => j < i

\* Retrieval ranked a chunk of another source first and the chunk of the
\* upper-case spelling of the documentation host last.
C5_Witness ==
  /\ Returned
  /\ Len(call.relevant_docs) >= 3
  /\ ~Authoritative(call.relevant_docs[1])
  /\ SourceOf(call.relevant_docs[Len(call.relevant_docs)])
       = Url("DOCS.ATLAN.COM", "/A")
  /\ Authoritative(call.prioritized[1])

\* C6: the sources of a successful result are at most 5 and pairwise different.
C6_SourcesCappedAndUnique ==
  Successful =>
    /\ Len(call.result.sources) <= 5
    /\ \A i, j \in DOMAIN call.result.sources :
         call.result.sources[i] = call.result.sources[j] => i = j

\* Six different citable sources were retrieved and five are cited.
C6_Witness ==
  /\ Successful
  /\ Cardinality(SourcesOfDocs(call.relevant_docs) \ {NA, EmptyStr}) >= 6
  /\ Len(call.result.sources) = 5

\* The first 5 of the values of s that are not in skip, each at its first
\* occurrence, in the order of s.
FirstOccurrences(s, skip) ==
  LET keep == {i \in DOMAIN s :
                 s[i] \notin skip /\ \A j \in 1..(i - 1) : s[j] # s[i]}
      all == PickFrom(s, keep)
  IN  IF Len(all) <= 5 THEN all ELSE SubSeq(all, 1, 5)

PrioritizedSources ==
  IF call.prioritized = <<>> THEN <<>>
  ELSE [i \in 1..Len(call.prioritized) |-> SourceOf(call.prioritized[i])]

\* C7 as stated: the sources of a successful result are the first 5 of the
\* prioritized chunks' sources, skipping only "N/A" and exact duplicates.
C7_SourcesSkipOnlyPlaceholder ==
  (Successful /\ call.retrieval = "docs" /\ call.relevant_docs # <<>>)
  => call.result.sources = FirstOccurrences(PrioritizedSources, {NA})

\* C7 as amended: the sources of a successful result are the first 5 of the
\* prioritized chunks' sources in prioritized order, skipping "N/A", the empty
\* source and exact duplicates (first occurrence wins).
C7_SourcesSkipPlaceholderAndEmpty ==
  (Successful /\ call.retrieval = "docs" /\ call.relevant_docs # <<>>)
  => call.result.sources = FirstOccurrences(PrioritizedSources, {NA, EmptyStr})

\* "N/A", an empty source and a repeated source were retrieved together.
C7_Witness ==
  /\ Successful
  /\ {NA, EmptyStr} \subseteq SourcesOfDocs(call.relevant_docs)
  /\ \E i, j \in DOMAIN call.relevant_docs :
       i # j /\ SourceOf(call.relevant_docs[i]) = SourceOf(call.relevant_docs[j])
  /\ call.result.sources # <<>>

\* C8: when the model call raises, the result is exactly
\* {error: "Failed to generate an answer from the LLM: <detail>"}, and a call
\* of get_rag_answer makes at most one model call.
C8_GenerationFailureNotRetried ==
  /\ call.llm_calls <= 1
  /\ (Called /\ call.generation = "raise")
       => /\ call.status = "returned"
          /\ call.result = [error |-> <<LLMFailurePrefix, "quota exceeded">>]
          /\ call.llm_calls = 1

C8_Witness ==
  /\ Returned
  /\ call.generation = "raise"
  /\ call.relevant_docs # <<>>

\* C9: on a pipeline whose store failed to load, every get_rag_answer call
\* returns {error: "Vector store is not available."} without retrieval or
\* model call, and the pipeline stays unavailable and touches neither the
\* index nor the build until another pipeline is constructed.
C9_UnavailableStaysUnavailable ==
  /\ [](( vector_store = "None" /\ Called )
          => /\ call.status = "returned"
             /\ call.result = [error |-> <<VectorStoreUnavailable>>]
             /\ call.retrieval = "not_called"
             /\ call.generation = "not_called"
             /\ call.llm_calls = 0)
  /\ [][ (vector_store = "None" /\ ~ConstructStep)
           => /\ vector_store' = "None"
              /\ index' = index
              /\ builds' = builds ]_vars

C9_Witness ==
  /\ vector_store = "None"
  /\ Returned
  /\ index.records # <<>>

\* A knowledge base that is absent, unreadable, empty, or whose records are
\* objects with no content or with whitespace only.
YieldsNoChunks(kbv) ==
  \/ kbv.kind \in {"absent", "unreadable"}
  \/ /\ kbv.kind = "json"
     /\ \A i \in DOMAIN kbv.data :
          /\ "nonobject" \notin DOMAIN kbv.data[i]
          /\ "content" \in DOMAIN kbv.data[i]
               => \A k \in DOMAIN kbv.data[i].content :
                    kbv.data[i].content[k] = Blank

\* C10: when the knowledge base is absent, unreadable, empty, or yields no
\* document or no chunk, _ensure_local_vector_store returns without raising
\* and leaves the index path exactly as it was.
C10_NothingToBuildLeavesIndexAlone ==
  [][ (ConstructStep /\ YieldsNoChunks(kb))
        => /\ ~ensure_log'.raised
           /\ ensure_log'.after = index
           /\ ~ensure_log'.steps.wrote
           /\ ~ensure_log'.steps.embedded
           /\ builds' = builds ]_vars

\* The knowledge base held whitespace only and no index existed.
C10_Witness ==
  /\ ensure_log.path = "no_chunks"
  /\ kb = KbJson(<<BlankContent>>)
  /\ ensure_log.before = AbsentIndex
  /\ ensure_log.after = AbsentIndex

\* The ticket of the page was analyzed: the run classified it.
Analyzed == page.status \in {"rendered", "raised"}

\* classify_ticket gave a classification: a mapping with the three keys and
\* no error.
ClassificationSucceeded ==
  /\ Analyzed
  /\ page.classification.type = "dict"
  /\ {"topic_tags", "sentiment", "priority"} \subseteq DOMAIN page.classification.fields
  /\ "error" \notin DOMAIN page.classification.fields

DirectAnswerTags ==
  { <<"How-to">>, <<"Product">>, <<"Best practices">>, <<"API/SDK">>, <<"SSO">> }

\* The topic tags of the classified ticket, surrounding whitespace apart.
TicketTags ==
  IF ClassificationSucceeded /\ page.classification.fields.topic_tags.type = "list"
  THEN LET items == page.classification.fields.topic_tags.items
       IN  { StripSeq(items[i].s, {" "}) : i \in DOMAIN items }
  ELSE {}

\* C11: for every analyzed ticket, the RAG pipeline is invoked if and only if
\* classification succeeded and one of the topic tags is a direct-answer tag;
\* a successfully classified ticket with no such tag gets the team-routing
\* message and does not reach the RAG pipeline.
C11_RagIffDirectAnswerTag ==
  Analyzed =>
    /\ page.rag_invoked <=>
         (ClassificationSucceeded /\ TicketTags \cap DirectAnswerTags # {})
    /\ (ClassificationSucceeded /\ TicketTags \cap DirectAnswerTags = {})
         => /\ page.status = "rendered"
            /\ page.response_card = "routed"
            /\ ~page.rag_invoked
            /\ call = NoCall

StripReturned == stripped.status = "returned"

MarkerWords == {"sources:", "source:", "**sources:**", "**source:**", "[books] sources:"}

\* A marker occurs in s at position i: a line break followed by a marker
\* heading in any letter case.
MarkerAt(s, i) ==
  /\ i + 1 <= Len(s)
  /\ s[i] = "\n"
  /\ LowerWord(s[i + 1]) \in MarkerWords

MarkerPositions(s) == { i \in DOMAIN s : MarkerAt(s, i) }

\* C12: strip_sources_from_answer cuts the answer at the earliest position at
\* which any of the markers occurs and drops everything from there on, then
\* trims trailing whitespace; the output contains none of the markers.
C12_CutAtEarliestMarker ==
  (StripReturned /\ MarkerPositions(stripped.answer_text) # {})
  => LET a == stripped.answer_text
         first == CHOOSE i \in MarkerPositions(a) : \A j \in MarkerPositions(a) : i <= j
     IN  /\ stripped.result = RStrip(SubSeq(a, 1, first - 1), {"\n", " "})
         /\ MarkerPositions(stripped.result) = {}

\* A line of s begins at position i.
LineStart(s, i) == i = 1 \/ s[i - 1] = "\n"

NoLineBeginsWithMarker(s) ==
  \A i \in DOMAIN s : LineStart(s, i) => LowerWord(s[i]) \notin MarkerWords

\* C13: strip_sources_from_answer returns the answer unchanged whenever no
\* line of it begins with one of the markers; a marker heading in the middle
\* of a line causes no truncation.
C13_NoMarkerLineNoTruncation ==
  (StripReturned /\ NoLineBeginsWithMarker(stripped.answer_text))
  => stripped.result = stripped.answer_text

\* "Sources:" stands in the middle of the second line of an answer that ends
\* with whitespace, and no line begins with a marker.
C13_Witness ==
  /\ StripReturned
  /\ stripped.answer_text = <<"Use", "\n", "Use", "Sources:", " ">>
  /\ stripped.result = stripped.answer_text

\* A content that is empty, and one that is empty or whitespace only.
EmptyText(content) == content = <<>>
BlankText(content) == \A k \in DOMAIN content : content[k] = Blank

\* The records of the knowledge base whose content is missing, empty or
\* whitespace only contribute no record of the index.
NoChunkOfBlankRecords ==
  \A i \in DOMAIN index.records :
     /\ index.records[i].page_content # Blank
     /\ \A k \in DOMAIN kb.data :
          ( /\ "url" \in DOMAIN kb.data[k]
            /\ "content" \in DOMAIN kb.data[k] => BlankText(kb.data[k].content) )
          => index.records[i].metadata.source # kb.data[k].url

\* C14 as stated: no document whose content is empty or whitespace only is
\* passed to the chunker or contributes a chunk to the index, in the lazy
\* build and in the build script.
C14_NoBlankDocumentReachesChunker ==
  /\ \A i \in DOMAIN chunker.documents :
       ~BlankText(chunker.documents[i].page_content)
  /\ NoChunkOfBlankRecords

\* C14 as amended: no document whose content is empty is passed to the
\* chunker, and no document whose content is empty or whitespace only
\* contributes a chunk to the index, in the lazy build and in the build script.
C14_NoEmptyDocumentReachesChunker ==
  /\ \A i \in DOMAIN chunker.documents :
       ~EmptyText(chunker.documents[i].page_content)
  /\ NoChunkOfBlankRecords

\* The chunker was given the whitespace-only document with a page of text,
\* and the index holds the chunk of the page only.
C14_Witness ==
  /\ kb = KbJson(<<DocSso, BlankContent>>)
  /\ chunker.called
  /\ \E i \in DOMAIN chunker.documents :
       chunker.documents[i].page_content = <<Blank>>
  /\ Len(index.records) = 1
  /\ index.records[1].page_content = "t1"

\* C15: every value get_rag_answer returns has all three fields answer,
\* sources and context_used, or has an error field, on every return path.
C15_ResultShape ==
  Returned =>
    \/ {"answer", "sources", "context_used"} \subseteq DOMAIN call.result
    \/ "error" \in DOMAIN call.result

ClassifyEnded == classified.status # "called" /\ classified.status # "none"

\* The response text is no JSON text once the fences and the surrounding
\* whitespace are removed.
Unparseable ==
  /\ classified.model.kind = "text"
  /\ LET body == SelectSeq(classified.model.text,
                           LAMBDA p : p.kind \notin {"fence_json", "fence", "whitespace"})
     IN  ~(Len(body) = 1 /\ body[1].kind = "json")

\* C16: for every input text and every model response, classify_ticket does
\* not raise and returns a mapping with all of topic_tags, sentiment and
\* priority, or a mapping with an error field; empty input gives an error
\* without a model call, and an un-parseable response gives an error with the
\* raw response text attached.
C16_ClassifyTicketTotal ==
  ClassifyEnded =>
    /\ classified.status = "returned"
    /\ classified.result.type = "dict"
    /\ \/ {"topic_tags", "sentiment", "priority"} \subseteq DOMAIN classified.result.fields
       \/ "error" \in DOMAIN classified.result.fields
    /\ classified.ticket_text = <<>>
         => /\ "error" \in DOMAIN classified.result.fields
            /\ classified.model_calls = 0
    /\ (classified.ticket_text # <<>> /\ Unparseable)
         => /\ "error" \in DOMAIN classified.result.fields
            /\ "raw_response" \in DOMAIN classified.result.fields
            /\ classified.result.fields.raw_response = classified.model.text

\* Two chunks are of the same priority tier.
SameTier(d1, d2) == Authoritative(d1) <=> Authoritative(d2)

\* C17 as stated: within each priority tier of the prioritized list, chunks
\* are in the lexicographic order of their source URL strings.
C17_TierOrderedBySourceUrl ==
  Called =>
    \A i, j \in DOMAIN call.prioritized :
      (i < j /\ SameTier(call.prioritized[i], call.prioritized[j]))
      => ~StrLess(SourceOf(call.prioritized[j]), SourceOf(call.prioritized[i]))

\* C17 as amended: within each priority tier of the prioritized list, chunks
\* are in the lexicographic order of their lower-cased source URL strings.
C17_TierOrderedByLowerCasedSourceUrl ==
  Called =>
    \A i, j \in DOMAIN call.prioritized :
      (i < j /\ SameTier(call.prioritized[i], call.prioritized[j]))
      => ~StrLess(Lower(SourceOf(call.prioritized[j])),
                  Lower(SourceOf(call.prioritized[i])))

\* Retrieval ranked the chunk of https://DOCS.ATLAN.COM/A before the chunk of
\* https://developer.atlan.com/a, and prioritization put it after.
C17_Witness ==
  /\ Returned
  /\ \E i, j \in DOMAIN call.relevant_docs :
       /\ i < j
       /\ SourceOf(call.relevant_docs[i]) = Url("DOCS.ATLAN.COM", "/A")
       /\ SourceOf(call.relevant_docs[j]) = Url("developer.atlan.com", "/a")
  /\ \E i, j \in DOMAIN call.prioritized :
       /\ i < j
       /\ SourceOf(call.prioritized[i]) = Url("developer.atlan.com", "/a")
       /\ SourceOf(call.prioritized[j]) = Url("DOCS.ATLAN.COM", "/A")

\* The position of chunk d in the list s.
PositionIn(d, s) == CHOOSE k \in DOMAIN s : s[k] = d

\* C18: prioritization is a stable sort: two retrieved chunks of the same
\* tier and the same source URL keep, in the prioritized list, the relative
\* order they had in the retrieved list.
C18_StableWithinSameSource ==
  (Called /\ call.retrieval = "docs" /\ call.relevant_docs # <<>>)
  => \A i, j \in DOMAIN call.relevant_docs :
       ( /\ i < j
         /\ SourceOf(call.relevant_docs[i]) = SourceOf(call.relevant_docs[j]) )
       => /\ \E k \in DOMAIN call.prioritized :
               call.prioritized[k] = call.relevant_docs[i]
          /\ \E k \in DOMAIN call.prioritized :
               call.prioritized[k] = call.relevant_docs[j]
          /\ PositionIn(call.relevant_docs[i], call.prioritized)
               < PositionIn(call.relevant_docs[j], call.prioritized)

\* Two chunks of https://docs.atlan.com/a were retrieved, the later page
\* first and other chunks between them, and the list was reordered.
C18_Witness ==
  /\ Returned
  /\ call.prioritized # call.relevant_docs
  /\ \E i, j \in DOMAIN call.relevant_docs :
       /\ i + 1 < j
       /\ call.relevant_docs[i].page_content = "t12"
       /\ call.relevant_docs[j].page_content = "t1"
       /\ PositionIn(call.relevant_docs[i], call.prioritized)
            < PositionIn(call.relevant_docs[j], call.prioritized)

\* C19: the populated-index check and the build are not atomic and nothing
\* serializes two constructions: a construction that checks while the index
\* path is not populated passes the check whatever the other construction has
\* done, and a construction that has passed the check and chunked writes its
\* chunks to the path whatever the path holds by then.
C19_CheckAndBuildNotAtomic ==
  /\ [][ \A p \in Builders :
           ( /\ ensuring[p].pc = "start"
             /\ ensuring'[p].pc # "start"
             /\ ~(index.exists /\ index.files) )
           => ensuring'[p].pc = "checked" ]_vars
  /\ [][ \A p \in Builders :
           (ensuring[p].pc = "chunked" /\ ensuring'[p].path = "built")
           => /\ index'.records = index.records \o ensuring[p].chunks
              /\ builds' = builds + 1 ]_vars

\* Both constructions passed the check on the missing index and both built:
\* the path holds the chunks of the knowledge base twice.
C19_Witness ==
  /\ \E p, q \in Builders :
       p # q /\ ensuring[p].path = "built" /\ ensuring[q].path = "built"
  /\ builds = 2
  /\ index.records # <<>>
  /\ \A i \in DOMAIN index.records : Occurrences(index.records[i], index.records) = 2

\* C20: every build writes its records into an index path that holds no
\* record of an earlier build, and after any sequence of builds from the same
\* knowledge base the index holds each chunk of it exactly once.
C20_EveryBuildWritesFreshIndex ==
  builds >= 1 =>
    /\ \A i \in DOMAIN index.records : Occurrences(index.records[i], index.records) = 1
    /\ \A i \in DOMAIN chunker.chunks : Occurrences(chunker.chunks[i], index.records) = 1

\* C21: whenever the index directory exists and is non-empty, so that a
\* construction skips the build, it holds the complete output of a finished
\* build: a build has completed and its records are in the path.  Neither a
\* construction made without a knowledge base nor a build that failed after
\* the directory was made leaves a path that passes the check.
C21_PopulatedMeansBuilt ==
  (index.exists /\ index.files) => (builds >= 1 /\ index.records # <<>>)

\* The positions of the prioritized chunks that have a citable source: one
\* that is neither the "N/A" placeholder nor empty.
CitablePositions(p) == {i \in DOMAIN p : SourceOf(p[i]) \notin {NA, EmptyStr}}

\* The position in p of the first chunk whose source is src.
FirstPositionOf(src, p) ==
  CHOOSE i \in DOMAIN p :
    SourceOf(p[i]) = src /\ \A j \in 1..(i - 1) : SourceOf(p[j]) # src

\* C22: the prioritized list is a permutation of the retrieved chunks; the
\* prompt context is the texts of all of them, in prioritized order, with a
\* blank line between two texts; and the sources of a successful result are
\* taken from the prioritized chunks in that same order, so that the first
\* cited source is the source of the first context passage that has a citable
\* source.
C22_PrioritizationLosesNothing ==
  (Called /\ call.retrieval = "docs" /\ call.relevant_docs # <<>>)
  => LET p == call.prioritized
         n == Len(call.relevant_docs)
         context == call.prompt.context
     IN  /\ Len(p) = n
         /\ \A d \in {call.relevant_docs[i] : i \in 1..n} \cup {p[i] : i \in DOMAIN p} :
              Occurrences(d, p) = Occurrences(d, call.relevant_docs)
         /\ Len(context) = 2 * n - 1
         /\ \A i \in 1..n : context[2 * i - 1] = p[i].page_content
         /\ \A i \in 1..(n - 1) : context[2 * i] = "\n\n"
         /\ Successful =>
              LET sources == call.result.sources
                  citable == CitablePositions(p)
              IN  /\ (citable = {}) <=> (sources = <<>>)
                  /\ citable # {} =>
                       sources[1] =
                         SourceOf(p[CHOOSE i \in citable : \A j \in citable : i <= j])
                  /\ \A i \in DOMAIN sources :
                       \E k \in citable : SourceOf(p[k]) = sources[i]
                  /\ \A i, j \in DOMAIN sources :
                       i < j => FirstPositionOf(sources[i], p) < FirstPositionOf(sources[j], p)

\* Retrieval ranked the chunks in another order than the prioritized one, the
\* first context passage has no citable source, and a later one is cited.
C22_Witness ==
  /\ Successful
  /\ Len(call.prioritized) >= 3
  /\ call.prioritized # call.relevant_docs
  /\ SourceOf(call.prioritized[1]) \in {NA, EmptyStr}
  /\ Len(call.result.sources) >= 1
  /\ Len(call.prompt.context) = 2 * Len(call.relevant_docs) - 1

\* A run of the handler that entered the direct-answer branch.
DirectAnswerStep == page.status = "none" /\ page'.status # "none" /\ page'.rag_invoked
SessionHasPipeline == vector_store # "NoPipeline"

\* C23: within one session, once a pipeline is stored every later step keeps
\* that instance and constructs no other; a direct-answer request that finds
\* no pipeline constructs one; a construction that raises stores nothing and
\* is reported as a "RAG pipeline error" result, so that the next
\* direct-answer request constructs again; one that returns is stored.
C23_PipelineStoredOnceAndReused ==
  /\ [][ SessionHasPipeline
           => /\ vector_store' = vector_store
              /\ constructions' = constructions
              /\ builds' = builds
              /\ index' = index
              /\ ensure_log' = ensure_log ]_vars
  /\ [][ (DirectAnswerStep /\ ~SessionHasPipeline)
           => /\ constructions' = constructions + 1
              /\ ensure_log'.before = index
              /\ ensure_log'.raised => vector_store' = "NoPipeline"
              /\ vector_store' = "NoPipeline"
                   => /\ "error" \in DOMAIN page'.rag_result
                      /\ page'.rag_result.error[1] = RagPipelineErrorPrefix
                      /\ page'.response_card = "rag_error"
                      /\ call' = NoCall
              /\ vector_store' # "NoPipeline" => call'.status # "none" ]_vars
  /\ [][ constructions' # constructions => (DirectAnswerStep /\ ~SessionHasPipeline) ]_vars

\* The first construction of the session raised after it had made the index
\* directory, a later request constructed again and was answered from the
\* pipeline it stored.
C23_Witness ==
  /\ constructions = 2
  /\ vector_store = "Chroma"
  /\ ensure_log.before.exists
  /\ ensure_log.path = "built"
  /\ page.status = "rendered"
  /\ page.rag_invoked
  /\ page.response_card = "answer"

\* C24: query never raises and always returns a string: the answer text when
\* get_rag_answer succeeds, a message that embeds the error text when it
\* returns an error result, and an apology that embeds the exception text
\* when it raises; a non-empty context is appended to the question that
\* get_rag_answer is given, and an empty one leaves the question unchanged.
C24_QueryAlwaysReturnsText ==
  queried.status # "none" =>
    LET c == queried.rag_call
    IN  /\ queried.status = "returned"
        /\ queried.value.type = "str"
        /\ call = c
        /\ Len(queried.context) = 0 => c.question = queried.question
        /\ Len(queried.context) > 0 =>
             /\ Len(c.question) = Len(queried.question) + 1 + Len(queried.context)
             /\ SubSeq(c.question, 1, Len(queried.question)) = queried.question
             /\ c.question[Len(queried.question) + 1] = AdditionalContextLabel
             /\ SubSeq(c.question, Len(queried.question) + 2, Len(c.question))
                  = queried.context
        /\ c.status = "raised" =>
             queried.value.s = <<ApologyPrefix, "retrieval failed">>
        /\ (c.status = "returned" /\ "error" \in DOMAIN c.result) =>
             /\ queried.value.s[1] = IssuePrefix
             /\ Tail(queried.value.s) = c.result.error
        /\ (c.status = "returned" /\ "error" \notin DOMAIN c.result) =>
             queried.value.s = <<c.result.answer>>

\* The retrieval raised inside a query that was given a context: the caller
\* got the apology, and the question had the context appended.
C24_Witness ==
  /\ queried.status = "returned"
  /\ queried.rag_call.status = "raised"
  /\ queried.context # <<>>
  /\ queried.value.s[1] = ApologyPrefix
  /\ Len(queried.rag_call.question) = 3

====
